---- MODULE Spec2Model ----
(***************************************************************************)
(* Model of json_to_xlsx.py: the loader (load_json_data), the six sheet    *)
(* builders (create_*_sheet), the converter (convert_json_to_xlsx) and the *)
(* command-line entry (main).                                              *)
(*                                                                         *)
(* A JSON value is a record [t |-> tag, v |-> payload]; the tag stands for *)
(* the Python type json.loads produces (dict, list, str, int, bool, None). *)
(* A file's text is a sequence of lexical tokens; json_loads parses it by  *)
(* the JSON grammar, so whole-document and line-by-line parsing differ.    *)
(***************************************************************************)
EXTENDS Integers, Sequences, FiniteSets, TLC

(* ------------------------------ bounds -------------------------------- *)

\* Largest number of text lines of an input file.
MaxLines == 3

(* --------------------------- JSON values ------------------------------ *)

Num(n) == [t |-> "num", v |-> n]
Str(s) == [t |-> "str", v |-> s]
Bool(b) == [t |-> "bool", v |-> b]
List(s) == [t |-> "list", v |-> s]
Obj(r) == [t |-> "obj", v |-> r]
Null == [t |-> "null", v |-> 0]

\* dict.get(key, default) on a dict payload d.
Get(d, key, default) == IF key \in DOMAIN d THEN d[key] ELSE default

(* ------------------- object literals of the inputs -------------------- *)

\* {"user_login":"alice","day":"d1","user_initiated_interaction_count":2,
\*  "loc_added_sum":5,"used_chat":true,
\*  "totals_by_ide":[{"ide":"vscode","loc_added_sum":5,
\*                    "last_known_plugin_version":{"plugin_version":"p1"}},
\*                   {"ide":"jetbrains","code_generation_activity_count":1}],
\*  "totals_by_feature":[{"feature":"chat","loc_added_sum":4}],
\*  "totals_by_language_model":[{"language":"py","model":"m1","loc_deleted_sum":1},
\*                              {"language":"go","model":"m2"}]}
ObjectA ==
    Obj([user_login |-> Str("alice"), day |-> Str("d1"),
         user_initiated_interaction_count |-> Num(2),
         loc_added_sum |-> Num(5), used_chat |-> Bool(TRUE),
         totals_by_ide |-> List(<<
            Obj([ide |-> Str("vscode"), loc_added_sum |-> Num(5),
                 last_known_plugin_version |-> Obj([plugin_version |-> Str("p1")])]),
            Obj([ide |-> Str("jetbrains"), code_generation_activity_count |-> Num(1)]) >>),
         totals_by_feature |-> List(<<
            Obj([feature |-> Str("chat"), loc_added_sum |-> Num(4)]) >>),
         totals_by_language_model |-> List(<<
            Obj([language |-> Str("py"), model |-> Str("m1"), loc_deleted_sum |-> Num(1)]),
            Obj([language |-> Str("go"), model |-> Str("m2")]) >>)])

\* {"user_login":"bob","day":"d2",
\*  "totals_by_ide":[{"ide":"vim","loc_added_sum":7,
\*                    "last_known_ide_version":{"ide_version":"v9"}}],
\*  "totals_by_language_feature":[{"language":"py","feature":"chat",
\*                                 "loc_suggested_to_add_sum":3}],
\*  "totals_by_model_feature":[{"model":"m1","feature":"agent",
\*                              "user_initiated_interaction_count":6}]}
ObjectB ==
    Obj([user_login |-> Str("bob"), day |-> Str("d2"),
         totals_by_ide |-> List(<<
            Obj([ide |-> Str("vim"), loc_added_sum |-> Num(7),
                 last_known_ide_version |-> Obj([ide_version |-> Str("v9")])]) >>),
         totals_by_language_feature |-> List(<<
            Obj([language |-> Str("py"), feature |-> Str("chat"),
                 loc_suggested_to_add_sum |-> Num(3)]) >>),
         totals_by_model_feature |-> List(<<
            Obj([model |-> Str("m1"), feature |-> Str("agent"),
                 user_initiated_interaction_count |-> Num(6)]) >>)])

\* {}
ObjectE == Obj([k \in {} |-> Null])

\* {"user_login":"carol","totals_by_ide":null}
ObjectN == Obj([user_login |-> Str("carol"), totals_by_ide |-> Null])

\* {"user_login":"dan","day":1}
ObjectD == Obj([user_login |-> Str("dan"), day |-> Num(1)])

\* {"user_login":"sam","totals_by_ide":"","totals_by_feature":{}}
ObjectS ==
    Obj([user_login |-> Str("sam"), totals_by_ide |-> Str(""),
         totals_by_feature |-> Obj([k \in {} |-> Null])])

\* The value an object-literal token denotes.
ObjectLiteral(tok) ==
    CASE tok = "A" -> ObjectA
      [] tok = "B" -> ObjectB
      [] tok = "E" -> ObjectE
      [] tok = "N" -> ObjectN
      [] tok = "D" -> ObjectD
      [] tok = "S" -> ObjectS

ObjectTokens == {"A", "B", "E", "N", "D", "S"}

(* ------------------------------ text ---------------------------------- *)

\* Tokens of a file's text: the object literals, the number literal "1",
\* the array punctuation, blank " ", newline "\n" and "x", a character that
\* starts no JSON value.
Whitespace == {" ", "\n"}

\* The line texts the input files are made of.
LineTexts ==
    { << >>,
      <<" ">>,
      <<"x">>,
      <<"A">>,
      <<"B">>,
      <<"E">>,
      <<"N">>,
      <<"D">>,
      <<"S">>,
      <<"1">>,
      <<"[", "]">>,
      <<"[", "A", ",">>,
      <<"B", "]">>,
      <<"[", "B", ",", " ", "A", "]">> }

RECURSIVE Contents(_)
\* The texts of at most n lines, lines joined by "\n".
Contents(n) ==
    IF n <= 1 THEN LineTexts
    ELSE LET shorter == Contents(n - 1)
         IN  shorter \cup { c \o <<"\n">> \o l : c \in shorter, l \in LineTexts }

(* ------------------------- str.strip / split -------------------------- *)

RECURSIVE LStrip(_)
LStrip(s) ==
    IF s # << >> /\ Head(s) \in Whitespace THEN LStrip(Tail(s)) ELSE s

RECURSIVE RStrip(_)
RStrip(s) ==
    IF s # << >> /\ s[Len(s)] \in Whitespace
    THEN RStrip(SubSeq(s, 1, Len(s) - 1))
    ELSE s

\* str.strip()
Strip(s) == LStrip(RStrip(s))

RECURSIVE SplitFrom(_, _, _)
SplitFrom(s, i, cur) ==
    IF i > Len(s) THEN << cur >>
    ELSE IF s[i] = "\n" THEN << cur >> \o SplitFrom(s, i + 1, << >>)
    ELSE SplitFrom(s, i + 1, Append(cur, s[i]))

\* str.split("\n"): the empty text splits into one empty line.
Split(s) == SplitFrom(s, 1, << >>)

(* ----------------------------- json.loads ----------------------------- *)

RECURSIVE SkipWS(_, _)
\* Index of the first non-whitespace token at or after i (Len(s)+1 if none).
SkipWS(s, i) ==
    IF i <= Len(s) /\ s[i] \in Whitespace THEN SkipWS(s, i + 1) ELSE i

ParseFail == [ok |-> FALSE, val |-> Null, next |-> 0]
ParseOk(val, next) == [ok |-> TRUE, val |-> val, next |-> next]

RECURSIVE ParseValue(_, _)
RECURSIVE ParseArray(_, _, _)

\* One JSON value starting at token i.
ParseValue(s, i) ==
    IF i > Len(s) THEN ParseFail
    ELSE IF s[i] \in ObjectTokens THEN ParseOk(ObjectLiteral(s[i]), i + 1)
    ELSE IF s[i] = "1" THEN ParseOk(Num(1), i + 1)
    ELSE IF s[i] = "["
         THEN LET j == SkipWS(s, i + 1)
              IN  IF j <= Len(s) /\ s[j] = "]"
                  THEN ParseOk(List(<< >>), j + 1)
                  ELSE ParseArray(s, j, << >>)
    ELSE ParseFail

\* The elements of an array from token i on, acc the elements read so far.
ParseArray(s, i, acc) ==
    LET r == ParseValue(s, i)
    IN  IF ~r.ok THEN ParseFail
        ELSE LET j == SkipWS(s, r.next)
             IN  IF j > Len(s) THEN ParseFail
                 ELSE IF s[j] = "]" THEN ParseOk(List(Append(acc, r.val)), j + 1)
                 ELSE IF s[j] = ","
                      THEN ParseArray(s, SkipWS(s, j + 1), Append(acc, r.val))
                 ELSE ParseFail

\* json.loads(s): one value, whitespace around it, nothing after it;
\* ok = FALSE stands for json.JSONDecodeError.
json_loads(s) ==
    LET r == ParseValue(s, SkipWS(s, 1))
    IN  IF r.ok /\ SkipWS(s, r.next) > Len(s) THEN r ELSE ParseFail

(* ------------------------------ console ------------------------------ *)

\* One printed line: which message, and the value it reports.
Msg(m, a) == [msg |-> m, arg |-> a]

(* --------------------------- load_json_data --------------------------- *)

RECURSIVE ParseLines_break(_, _, _, _)
\* ParseLines with break in place of continue: the first malformed line ends
\* the loop.
ParseLines_break(lines, i, data, console) ==
    IF i > Len(lines) THEN [data |-> data, console |-> console]
    ELSE IF Strip(lines[i]) = << >>
         THEN ParseLines_break(lines, i + 1, data, console)
    ELSE LET r == json_loads(lines[i])
         IN  IF r.ok
             THEN ParseLines_break(lines, i + 1, Append(data, r.val), console)
             ELSE [data |-> data, console |-> Append(console, Msg("parse_error", i))]

RECURSIVE ParseLines_keep_bad(_, _, _, _)
\* ParseLines appending None for a line that fails to parse.
ParseLines_keep_bad(lines, i, data, console) ==
    IF i > Len(lines) THEN [data |-> data, console |-> console]
    ELSE IF Strip(lines[i]) = << >>
         THEN ParseLines_keep_bad(lines, i + 1, data, console)
    ELSE LET r == json_loads(lines[i])
         IN  IF r.ok
             THEN ParseLines_keep_bad(lines, i + 1, Append(data, r.val), console)
             ELSE ParseLines_keep_bad(lines, i + 1, Append(data, Null),
                                      Append(console, Msg("parse_error", i)))

RECURSIVE ParseLines(_, _, _, _)
\* The JSONL loop: every non-blank line is parsed on its own; a line that
\* fails is reported and skipped.
ParseLines(lines, i, data, console) ==
    IF i > Len(lines) THEN [data |-> data, console |-> console]
    ELSE IF Strip(lines[i]) = << >>
         THEN ParseLines(lines, i + 1, data, console)
    ELSE LET r == json_loads(lines[i])
         IN  IF r.ok
             THEN ParseLines(lines, i + 1, Append(data, r.val), console)
             ELSE ParseLines(lines, i + 1, data, Append(console, Msg("parse_error", i)))

\* load_json_data wrapping every parsed document, a list included.
load_json_data_always_wrap(status, text) ==
    IF status = "missing"
    THEN [data |-> << >>, console |-> << Msg("file_not_found", 0) >>, branch |-> "none"]
    ELSE IF status = "unreadable"
    THEN [data |-> << >>, console |-> << Msg("load_error", 0) >>, branch |-> "none"]
    ELSE LET content == Strip(text)
             single_json == json_loads(content)
         IN  IF single_json.ok
             THEN [data |-> << single_json.val >>, console |-> << Msg("loaded", 1) >>,
                   branch |-> "single"]
             ELSE LET r == ParseLines(Split(content), 1, << >>, << >>)
                  IN  [data |-> r.data, console |-> Append(r.console, Msg("loaded", Len(r.data))),
                       branch |-> "jsonl"]

\* load_json_data(path) for a file in state status ("missing", "unreadable"
\* or "ok") holding text. branch tells which parse produced the data.
load_json_data(status, text) ==
    IF status = "missing"
    THEN [data |-> << >>, console |-> << Msg("file_not_found", 0) >>, branch |-> "none"]
    ELSE IF status = "unreadable"
    THEN [data |-> << >>, console |-> << Msg("load_error", 0) >>, branch |-> "none"]
    ELSE LET content == Strip(text)
             single_json == json_loads(content)
         IN  IF single_json.ok
             THEN LET data == IF single_json.val.t = "list"
                              THEN single_json.val.v
                              ELSE << single_json.val >>
                  IN  [data |-> data, console |-> << Msg("loaded", Len(data)) >>, branch |-> "single"]
             ELSE LET r == ParseLines(Split(content), 1, << >>, << >>)
                  IN  [data |-> r.data, console |-> Append(r.console, Msg("loaded", Len(r.data))),
                       branch |-> "jsonl"]

(* --------------------------- sheet builders --------------------------- *)

DefaultStr == Str("")
DefaultNum == Num(0)
DefaultBool == Bool(FALSE)
EmptyDict == Obj([k \in {} |-> Null])

\* What a builder gives: the rows of its DataFrame, or raised = TRUE when an
\* exception leaves the builder.
Rows(rows) == [raised |-> FALSE, rows |-> rows]
Raised == [raised |-> TRUE, rows |-> << >>]

\* The row of one record in Main_Metrics.
MainRow(record) ==
    LET d == record.v
    IN  ("Report Start" :> Get(d, "report_start_day", DefaultStr)) @@
        ("Report End" :> Get(d, "report_end_day", DefaultStr)) @@
        ("Day" :> Get(d, "day", DefaultStr)) @@
        ("Enterprise ID" :> Get(d, "enterprise_id", DefaultStr)) @@
        ("User ID" :> Get(d, "user_id", DefaultStr)) @@
        ("User Login" :> Get(d, "user_login", DefaultStr)) @@
        ("User Initiated Interactions" :>
            Get(d, "user_initiated_interaction_count", DefaultNum)) @@
        ("Code Generation Activity" :>
            Get(d, "code_generation_activity_count", DefaultNum)) @@
        ("Code Acceptance Activity" :>
            Get(d, "code_acceptance_activity_count", DefaultNum)) @@
        ("LOC Suggested to Add" :> Get(d, "loc_suggested_to_add_sum", DefaultNum)) @@
        ("LOC Suggested to Delete" :>
            Get(d, "loc_suggested_to_delete_sum", DefaultNum)) @@
        ("LOC Added" :> Get(d, "loc_added_sum", DefaultNum)) @@
        ("LOC Deleted" :> Get(d, "loc_deleted_sum", DefaultNum)) @@
        ("Used Agent" :> Get(d, "used_agent", DefaultBool)) @@
        ("Used Chat" :> Get(d, "used_chat", DefaultBool))

RECURSIVE MainRows_skip_empty(_, _, _)
\* MainRows with "if not record: continue": a record with no field gives no row.
MainRows_skip_empty(data, i, main_data) ==
    IF i > Len(data) THEN main_data
    ELSE IF DOMAIN data[i].v = {}
         THEN MainRows_skip_empty(data, i + 1, main_data)
    ELSE MainRows_skip_empty(data, i + 1, Append(main_data, MainRow(data[i])))

RECURSIVE MainRows_prepend(_, _, _)
\* MainRows with main_data.insert(0, main_row): the rows come out reversed.
MainRows_prepend(data, i, main_data) ==
    IF i > Len(data) THEN main_data
    ELSE MainRows_prepend(data, i + 1, << MainRow(data[i]) >> \o main_data)

RECURSIVE MainRows(_, _, _)
\* The loop of create_main_metrics_sheet: one row appended per record.
MainRows(data, i, main_data) ==
    IF i > Len(data) THEN main_data
    ELSE MainRows(data, i + 1, Append(main_data, MainRow(data[i])))

\* create_main_metrics_sheet dropping the records that have no user_login.
create_main_metrics_sheet_skip_anonymous(data) ==
    IF \E i \in 1..Len(data) : data[i].t # "obj"
    THEN Raised
    ELSE Rows(MainRows(SelectSeq(data, LAMBDA r : "user_login" \in DOMAIN r.v),
                       1, << >>))

\* record.get raises AttributeError on a record that is no dict.
create_main_metrics_sheet(data) ==
    IF \E i \in 1..Len(data) : data[i].t # "obj"
    THEN Raised
    ELSE Rows(MainRows(data, 1, << >>))

\* The carry-over columns of a record.
UserInfo(record) ==
    ("User Login" :> Get(record.v, "user_login", DefaultStr)) @@
    ("Day" :> Get(record.v, "day", DefaultStr))

\* The metric columns a nested entry e gives, each defaulted to 0.
LocMetrics(e) ==
    ("Code Generation Activity" :>
        Get(e.v, "code_generation_activity_count", DefaultNum)) @@
    ("Code Acceptance Activity" :>
        Get(e.v, "code_acceptance_activity_count", DefaultNum)) @@
    ("LOC Suggested to Add" :> Get(e.v, "loc_suggested_to_add_sum", DefaultNum)) @@
    ("LOC Suggested to Delete" :>
        Get(e.v, "loc_suggested_to_delete_sum", DefaultNum)) @@
    ("LOC Added" :> Get(e.v, "loc_added_sum", DefaultNum)) @@
    ("LOC Deleted" :> Get(e.v, "loc_deleted_sum", DefaultNum))

Interactions(e) ==
    "User Initiated Interactions" :>
        Get(e.v, "user_initiated_interaction_count", DefaultNum)

\* dict.update: the entries of upd replace and extend those of row.
Update(row, upd) == upd @@ row

IdeRow(record, ide_total) ==
    Update(UserInfo(record),
        ("IDE" :> Get(ide_total.v, "ide", DefaultStr)) @@
        Interactions(ide_total) @@ LocMetrics(ide_total) @@
        ("Plugin Version" :>
            Get(Get(ide_total.v, "last_known_plugin_version", EmptyDict).v,
                "plugin_version", DefaultStr)) @@
        ("IDE Version" :>
            Get(Get(ide_total.v, "last_known_ide_version", EmptyDict).v,
                "ide_version", DefaultStr)))

FeatureRow(record, feature_total) ==
    Update(UserInfo(record),
        ("Feature" :> Get(feature_total.v, "feature", DefaultStr)) @@
        Interactions(feature_total) @@ LocMetrics(feature_total))

LangFeatureRow(record, lang_feature) ==
    Update(UserInfo(record),
        ("Language" :> Get(lang_feature.v, "language", DefaultStr)) @@
        ("Feature" :> Get(lang_feature.v, "feature", DefaultStr)) @@
        LocMetrics(lang_feature))

LangModelRow(record, lang_model) ==
    Update(UserInfo(record),
        ("Language" :> Get(lang_model.v, "language", DefaultStr)) @@
        ("Model" :> Get(lang_model.v, "model", DefaultStr)) @@
        LocMetrics(lang_model))

ModelFeatureRow(record, model_feature) ==
    Update(UserInfo(record),
        ("Model" :> Get(model_feature.v, "model", DefaultStr)) @@
        ("Feature" :> Get(model_feature.v, "feature", DefaultStr)) @@
        Interactions(model_feature) @@ LocMetrics(model_feature))

\* NestedList of a builder pasted from create_ide_totals_sheet with the field
\* name left unchanged.
NestedList_copy_paste(record, field) == Get(record.v, "totals_by_ide", List(<< >>))

\* record.get(field, []) of a dict record.
NestedList(record, field) == Get(record.v, field, List(<< >>))

\* .get("plugin_version") on a last_known_* value that is no dict raises.
IdeEntryRaises(ide_total) ==
    \/ Get(ide_total.v, "last_known_plugin_version", EmptyDict).t # "obj"
    \/ Get(ide_total.v, "last_known_ide_version", EmptyDict).t # "obj"

\* The row the builder of the nested list field makes of one entry.
EntryRow(field, record, entry) ==
    CASE field = "totals_by_ide" -> IdeRow(record, entry)
      [] field = "totals_by_feature" -> FeatureRow(record, entry)
      [] field = "totals_by_language_feature" -> LangFeatureRow(record, entry)
      [] field = "totals_by_language_model" -> LangModelRow(record, entry)
      [] field = "totals_by_model_feature" -> ModelFeatureRow(record, entry)

\* "for entry in nested" cannot start: None, a number and a boolean are not
\* iterable (TypeError).
NotIterable(nested) == nested.t \in {"null", "num", "bool"}

\* What "for entry in nested" goes through: the elements of a list; the
\* characters of a str and the keys of a dict are strs, shown here as one
\* str when there is any, and "" and {} give nothing.
Entries(nested) ==
    CASE nested.t = "list" -> nested.v
      [] nested.t = "str" -> IF nested.v = "" THEN << >> ELSE << nested >>
      [] nested.t = "obj" -> IF DOMAIN nested.v = {} THEN << >> ELSE << Str("key") >>
      [] OTHER -> << >>

\* An exception leaves the loops at this record: the record is no dict, its
\* nested value is not iterable, or an entry is no dict (entry.get raises
\* AttributeError).
RecordRaises(field, record) ==
    \/ record.t # "obj"
    \/ NotIterable(NestedList(record, field))
    \/ \E k \in 1..Len(Entries(NestedList(record, field))) :
          \/ Entries(NestedList(record, field))[k].t # "obj"
          \/ field = "totals_by_ide"
                /\ IdeEntryRaises(Entries(NestedList(record, field))[k])

RECURSIVE RecordRows(_, _, _, _)
\* The inner loop: one row appended per entry of the record's nested value.
RecordRows(field, record, k, rows) ==
    IF k > Len(Entries(NestedList(record, field))) THEN rows
    ELSE RecordRows(field, record, k + 1,
                    Append(rows, EntryRow(field, record,
                                          Entries(NestedList(record, field))[k])))

RECURSIVE BreakdownRows(_, _, _, _)
\* The outer loop over the records.
BreakdownRows(field, data, i, rows) ==
    IF i > Len(data) THEN rows
    ELSE BreakdownRows(field, data, i + 1, RecordRows(field, data[i], 1, rows))

\* The nested loops the five breakdown builders share.
Breakdown(data, field) ==
    IF \E i \in 1..Len(data) : RecordRaises(field, data[i])
    THEN Raised
    ELSE Rows(BreakdownRows(field, data, 1, << >>))

create_ide_totals_sheet(data) == Breakdown(data, "totals_by_ide")

create_feature_totals_sheet(data) == Breakdown(data, "totals_by_feature")

create_language_feature_sheet(data) == Breakdown(data, "totals_by_language_feature")

create_language_model_sheet(data) == Breakdown(data, "totals_by_language_model")

create_model_feature_sheet(data) == Breakdown(data, "totals_by_model_feature")

(* ------------------------------- state -------------------------------- *)

VARIABLES
    pc,             \* position of the run: "main", "convert", "loaded", "built", "done"
    fileStatus,     \* the input path: "missing", "unreadable" or "ok"
    text,           \* the input file's text, when it can be read
    data,           \* convert_json_to_xlsx's data
    branch,         \* which parse of the loader produced data
    sheets,         \* convert_json_to_xlsx's sheets: sheet name -> rows
    built,          \* the sheets dict has been assigned
    writeAttempted, \* pd.ExcelWriter(...) has been called
    outFile,        \* the output path: state "absent", "partial" or "written", and its tabs
    console,        \* the lines printed so far
    raised,         \* an exception has left convert_json_to_xlsx
    convertCalled,  \* convert_json_to_xlsx has been called
    viaMain         \* the run started in main

vars == << pc, fileStatus, text, data, branch, sheets, built, writeAttempted,
           outFile, console, raised, convertCalled, viaMain >>

\* The keys of the sheets dict, in insertion order.
SheetNames == << "Main_Metrics", "IDE_Totals", "Feature_Totals",
                 "Language_Feature", "Language_Model", "Model_Feature" >>

NoSheets == [n \in {SheetNames[i] : i \in 1..Len(SheetNames)} |-> << >>]

Absent == [state |-> "absent", tabs |-> << >>]

\* The run starts in main, or with a direct call of convert_json_to_xlsx.
Init ==
    /\ pc \in {"main", "convert"}
    /\ fileStatus \in {"missing", "unreadable", "ok"}
    /\ text \in IF fileStatus = "ok" THEN Contents(MaxLines) ELSE { << >> }
    /\ data = << >>
    /\ branch = "none"
    /\ sheets = NoSheets
    /\ built = FALSE
    /\ writeAttempted = FALSE
    /\ outFile = Absent
    /\ console = << >>
    /\ raised = FALSE
    /\ viaMain = (pc = "main")
    /\ convertCalled = (pc = "convert")

(* -------------------------------- main -------------------------------- *)

\* main: os.path.exists decides between the usage text and the conversion.
main ==
    /\ pc = "main"
    /\ IF fileStatus = "missing"
       THEN /\ console' = console \o << Msg("does_not_exist", 0), Msg("usage", 0) >>
            /\ pc' = "done"
            /\ UNCHANGED convertCalled
       ELSE /\ console' = Append(console, Msg("converting", 0))
            /\ pc' = "convert"
            /\ convertCalled' = TRUE
    /\ UNCHANGED << fileStatus, text, data, branch, sheets, built, writeAttempted,
                    outFile, raised, viaMain >>

(* ------------------------ convert_json_to_xlsx ------------------------ *)

\* ConvertLoad without "if not data: return".
ConvertLoad_no_check ==
    /\ pc = "convert"
    /\ LET r == load_json_data(fileStatus, text)
       IN  /\ data' = r.data
           /\ branch' = r.branch
           /\ console' = console \o r.console
           /\ pc' = "loaded"
    /\ UNCHANGED << fileStatus, text, sheets, built, writeAttempted, outFile,
                    raised, convertCalled, viaMain >>

\* data = load_json_data(json_file_path); if not data: return
ConvertLoad ==
    /\ pc = "convert"
    /\ LET r == load_json_data(fileStatus, text)
       IN  /\ data' = r.data
           /\ branch' = r.branch
           /\ console' = console \o r.console
           /\ pc' = IF Len(r.data) = 0 THEN "done" ELSE "loaded"
    /\ UNCHANGED << fileStatus, text, sheets, built, writeAttempted, outFile,
                    raised, convertCalled, viaMain >>

\* The sheets dict: the six builders in order, outside any try.
BuildAll(d) ==
    [Main_Metrics |-> create_main_metrics_sheet(d),
     IDE_Totals |-> create_ide_totals_sheet(d),
     Feature_Totals |-> create_feature_totals_sheet(d),
     Language_Feature |-> create_language_feature_sheet(d),
     Language_Model |-> create_language_model_sheet(d),
     Model_Feature |-> create_model_feature_sheet(d)]

ConvertBuild ==
    /\ pc = "loaded"
    /\ console' = Append(console, Msg("creating_sheets", 0))
    /\ LET b == BuildAll(data)
       IN  IF \E n \in DOMAIN b : b[n].raised
           THEN /\ raised' = TRUE
                /\ pc' = "done"
                /\ UNCHANGED << sheets, built >>
           ELSE /\ sheets' = [n \in DOMAIN b |-> b[n].rows]
                /\ built' = TRUE
                /\ pc' = "built"
                /\ UNCHANGED raised
    /\ UNCHANGED << fileStatus, text, data, branch, writeAttempted, outFile,
                    convertCalled, viaMain >>

\* Empty with the emptiness test left out: every sheet is written.
Empty_never(rows) == FALSE

\* DataFrame.empty of a sheet built from a list of row dicts.
Empty(rows) == Len(rows) = 0

RECURSIVE WriteSheets(_, _, _, _)
\* The loop over sheets.items(): a non-empty sheet becomes a tab, an empty
\* one a warning.
WriteSheets(sh, i, tabs, out) ==
    IF i > Len(SheetNames) THEN [tabs |-> tabs, console |-> out]
    ELSE LET sheet_name == SheetNames[i]
             df == sh[sheet_name]
         IN  IF ~Empty(df)
             THEN WriteSheets(sh, i + 1,
                              Append(tabs, [name |-> sheet_name, rows |-> df]),
                              Append(out, Msg("created_sheet", << sheet_name, Len(df) >>)))
             ELSE WriteSheets(sh, i + 1, tabs,
                              Append(out, Msg("warning_empty", << sheet_name, 0 >>)))

\* Series.min()/max() of the Day column raise TypeError when the column
\* mixes strings and numbers.
DayRangeRaises(main_df) ==
    \E i, j \in 1..Len(main_df) : main_df[i]["Day"].t # main_df[j]["Day"].t

\* The lines printed after the with block, up to the first exception.
Summary(d, main_df) ==
    << Msg("success", 0), Msg("total_records", Len(d)), Msg("summary_header", 0) >> \o
    (IF Empty(main_df) THEN << >>
     ELSE << Msg("unique_users", 0) >> \o
          (IF DayRangeRaises(main_df)
           THEN << Msg("write_error", 0) >>
           ELSE << Msg("date_range", 0), Msg("total_interactions", 0),
                   Msg("total_code_generations", 0), Msg("total_loc_added", 0) >>))

\* The try block. The environment decides whether the output path can be
\* opened and saved: "open_error" fails in pd.ExcelWriter(...), "save_error"
\* when the with block closes the writer.
ConvertWrite ==
    /\ pc = "built"
    /\ writeAttempted' = TRUE
    /\ pc' = "done"
    /\ \E outcome \in {"ok", "open_error", "save_error"} :
          LET w == WriteSheets(sheets, 1, << >>, << >>)
          IN  CASE outcome = "ok" ->
                     /\ outFile' = [state |-> "written", tabs |-> w.tabs]
                     /\ console' = console \o w.console
                                       \o Summary(data, sheets["Main_Metrics"])
                [] outcome = "open_error" ->
                     /\ outFile' = outFile
                     /\ console' = Append(console, Msg("write_error", 0))
                [] outcome = "save_error" ->
                     /\ outFile' \in {outFile, [state |-> "partial", tabs |-> << >>]}
                     /\ console' = Append(console \o w.console, Msg("write_error", 0))
    /\ UNCHANGED << fileStatus, text, data, branch, sheets, built, raised,
                    convertCalled, viaMain >>

Next == main \/ ConvertLoad \/ ConvertBuild \/ ConvertWrite

Spec == Init /\ [][Next]_vars

TypeOK ==
    /\ pc \in {"main", "convert", "loaded", "built", "done"}
    /\ fileStatus \in {"missing", "unreadable", "ok"}
    /\ branch \in {"none", "single", "jsonl"}
    /\ built \in BOOLEAN /\ writeAttempted \in BOOLEAN
    /\ raised \in BOOLEAN /\ convertCalled \in BOOLEAN /\ viaMain \in BOOLEAN
    /\ outFile.state \in {"absent", "partial", "written"}

(* ------------------------- claims: the loader ------------------------- *)

\* load_json_data has returned in this run.
Loaded == convertCalled /\ pc # "convert"

\* The lines of the file as written, and their kinds.
FileLines == Split(text)
IsBlank(line) == \A k \in 1..Len(line) : line[k] \in Whitespace
GoodLines == { i \in 1..Len(FileLines) :
                  ~IsBlank(FileLines[i]) /\ json_loads(FileLines[i]).ok }
BadLines == { i \in 1..Len(FileLines) :
                 ~IsBlank(FileLines[i]) /\ ~json_loads(FileLines[i]).ok }
WholeDocument == json_loads(text)

\* C1: when the whole file content parses as one JSON document, the loader
\* returns the parsed list itself (same elements, same order), or the parsed
\* non-list value wrapped in a one-element list, and the line-by-line
\* fallback is not used.
C1_WholeDocument ==
    (Loaded /\ fileStatus = "ok" /\ WholeDocument.ok) =>
        /\ branch = "single"
        /\ WholeDocument.val.t = "list" => data = WholeDocument.val.v
        /\ WholeDocument.val.t # "list" => data = << WholeDocument.val >>

\* A document spread over two lines, neither of which parses alone, loaded
\* as the two-element array it is.
C1_Witness ==
    /\ Loaded /\ fileStatus = "ok" /\ WholeDocument.ok
    /\ WholeDocument.val.t = "list"
    /\ data = << ObjectA, ObjectB >>
    /\ Len(FileLines) = 2 /\ GoodLines = {}

\* C2: for every NDJSON input with a malformed line, the loader returns the
\* parsed values of the other non-blank, well-formed lines in line order,
\* the malformed line absent; lines after a malformed one are still read.
\* An input with exactly one malformed line is never a whole document.
C2_MalformedLineSkipped ==
    (Loaded /\ fileStatus = "ok" /\ BadLines # {}) =>
        /\ Cardinality(BadLines) = 1 => branch = "jsonl"
        /\ branch = "jsonl" =>
              /\ Len(data) = Cardinality(GoodLines)
              /\ \A i \in GoodLines :
                    data[Cardinality({ j \in GoodLines : j <= i })]
                        = json_loads(FileLines[i]).val

\* A malformed line between two well-formed ones.
C2_Witness ==
    /\ Loaded /\ fileStatus = "ok" /\ branch = "jsonl"
    /\ \E i \in BadLines : \E g, h \in GoodLines : g < i /\ i < h
    /\ Len(data) = 2 /\ data[1] # data[2]

\* C3 as stated: the loader returns the empty list when the file does not
\* exist, cannot be read, is empty, or contains no line that parses as JSON.
C3_EmptyWhenNoLineParses ==
    (Loaded /\ (fileStatus # "ok" \/ GoodLines = {})) => Len(data) = 0

\* C3, amended: the loader returns the empty list when the file does not
\* exist, cannot be read, is empty, or neither parses as one JSON document
\* nor contains a line that parses as JSON.
C3_EmptyWhenNothingParses ==
    Loaded =>
        /\ fileStatus # "ok" => Len(data) = 0 /\ branch = "none"
        /\ (fileStatus = "ok" /\ IsBlank(text)) => Len(data) = 0
        /\ (fileStatus = "ok" /\ ~WholeDocument.ok /\ GoodLines = {})
              => Len(data) = 0

\* A file of malformed and blank lines only, loaded as no record.
C3_Witness ==
    /\ Loaded /\ fileStatus = "ok" /\ ~WholeDocument.ok
    /\ GoodLines = {} /\ Cardinality(BadLines) = 2
    /\ Len(data) = 0 /\ pc = "done"

(* ---------------------- claims: the sheet builders -------------------- *)

DefaultOf(kind) ==
    CASE kind = "str" -> Str("")
      [] kind = "num" -> Num(0)
      [] kind = "bool" -> Bool(FALSE)

\* Column, the field it shows, the kind of its default.
MetricColumns ==
    { << "Code Generation Activity", "code_generation_activity_count", "num" >>,
      << "Code Acceptance Activity", "code_acceptance_activity_count", "num" >>,
      << "LOC Suggested to Add", "loc_suggested_to_add_sum", "num" >>,
      << "LOC Suggested to Delete", "loc_suggested_to_delete_sum", "num" >>,
      << "LOC Added", "loc_added_sum", "num" >>,
      << "LOC Deleted", "loc_deleted_sum", "num" >> }

InteractionColumn ==
    { << "User Initiated Interactions", "user_initiated_interaction_count", "num" >> }

CarryOverColumns ==
    { << "User Login", "user_login", "str" >>, << "Day", "day", "str" >> }

MainColumns ==
    MetricColumns \cup InteractionColumn \cup CarryOverColumns \cup
    { << "Report Start", "report_start_day", "str" >>,
      << "Report End", "report_end_day", "str" >>,
      << "Enterprise ID", "enterprise_id", "str" >>,
      << "User ID", "user_id", "str" >>,
      << "Used Agent", "used_agent", "bool" >>,
      << "Used Chat", "used_chat", "bool" >> }

\* row shows, in every column of cols, the field of dict d or its default.
ShowsFields(row, cols, d) ==
    \A c \in cols :
        row[c[1]] = IF c[2] \in DOMAIN d THEN d[c[2]] ELSE DefaultOf(c[3])

ColumnNames(cols) == { c[1] : c \in cols }

\* C4: Main_Metrics has exactly one row per record; every column of row i is
\* record i's own top-level field, or 0 / "" / false when the field is
\* absent; a metric present only in a nested entry shows as 0.
C4_MainRowPerRecord ==
    built =>
        LET main_df == sheets["Main_Metrics"]
        IN  /\ Len(main_df) = Len(data)
            /\ \A i \in 1..Len(data) :
                  /\ DOMAIN main_df[i] = ColumnNames(MainColumns)
                  /\ ShowsFields(main_df[i], MainColumns, data[i].v)
                  /\ "loc_added_sum" \notin DOMAIN data[i].v
                        => main_df[i]["LOC Added"] = Num(0)
                  /\ DOMAIN data[i].v = {}
                        => \A c \in MainColumns : main_df[i][c[1]] = DefaultOf(c[3])

\* Three records: one with its own LOC Added, one whose only LOC Added is
\* nested in totals_by_ide, one with no field at all.
C4_Witness ==
    /\ built /\ Len(data) = 3
    /\ sheets["Main_Metrics"][1]["LOC Added"] = Num(5)
    /\ "loc_added_sum" \notin DOMAIN data[2].v
    /\ "totals_by_ide" \in DOMAIN data[2].v
    /\ sheets["Main_Metrics"][2]["LOC Added"] = Num(0)
    /\ DOMAIN data[3].v = {}

\* The five breakdown groupings: sheet, nested field, the columns read from
\* the entry, and the first dimension column with its key.
BreakdownSpecs ==
    { [sheet |-> "IDE_Totals", field |-> "totals_by_ide",
       dim |-> "IDE", key |-> "ide",
       cols |-> { << "IDE", "ide", "str" >> } \cup InteractionColumn \cup MetricColumns,
       versions |-> TRUE],
      [sheet |-> "Feature_Totals", field |-> "totals_by_feature",
       dim |-> "Feature", key |-> "feature",
       cols |-> { << "Feature", "feature", "str" >> } \cup InteractionColumn
                   \cup MetricColumns,
       versions |-> FALSE],
      [sheet |-> "Language_Feature", field |-> "totals_by_language_feature",
       dim |-> "Language", key |-> "language",
       cols |-> { << "Language", "language", "str" >>, << "Feature", "feature", "str" >> }
                   \cup MetricColumns,
       versions |-> FALSE],
      [sheet |-> "Language_Model", field |-> "totals_by_language_model",
       dim |-> "Model", key |-> "model",
       cols |-> { << "Language", "language", "str" >>, << "Model", "model", "str" >> }
                   \cup MetricColumns,
       versions |-> FALSE],
      [sheet |-> "Model_Feature", field |-> "totals_by_model_feature",
       dim |-> "Model", key |-> "model",
       cols |-> { << "Model", "model", "str" >>, << "Feature", "feature", "str" >> }
                   \cup InteractionColumn \cup MetricColumns,
       versions |-> FALSE] }

\* The nested list of a record under field: empty when the field is absent,
\* and when the field holds "" or {}, which have no entry.
EntriesOf(record, field) ==
    IF field \in DOMAIN record.v /\ record.v[field].t = "list"
    THEN record.v[field].v
    ELSE << >>

RECURSIVE EntriesBefore(_, _, _)
\* How many nested entries the records before record i hold under field.
EntriesBefore(d, field, i) ==
    IF i <= 1 THEN 0
    ELSE EntriesBefore(d, field, i - 1) + Len(EntriesOf(d[i - 1], field))

VersionColumns == { "Plugin Version", "IDE Version" }

\* The version a nested IDE entry shows under last_known_<which>.
VersionOf(entry, outer, inner) ==
    IF outer \in DOMAIN entry.v /\ inner \in DOMAIN entry.v[outer].v
    THEN entry.v[outer].v[inner]
    ELSE Str("")

\* C5: in each of the five breakdown tables the row count is the sum over the
\* records of the length of the record's nested list (0 when absent), and the
\* row derived from entry k of record i carries record i's User Login and Day
\* and entry k's own dimension keys and metrics.
C5_BreakdownRows ==
    built =>
        \A sp \in BreakdownSpecs :
            LET rows == sheets[sp.sheet]
            IN  /\ Len(rows) = EntriesBefore(data, sp.field, Len(data) + 1)
                /\ \A i \in 1..Len(data) :
                     \A k \in 1..Len(EntriesOf(data[i], sp.field)) :
                        LET row == rows[EntriesBefore(data, sp.field, i) + k]
                            entry == EntriesOf(data[i], sp.field)[k]
                        IN  /\ DOMAIN row =
                                  ColumnNames(CarryOverColumns) \cup ColumnNames(sp.cols)
                                  \cup (IF sp.versions THEN VersionColumns ELSE {})
                            /\ ShowsFields(row, CarryOverColumns, data[i].v)
                            /\ ShowsFields(row, sp.cols, entry.v)
                            /\ sp.versions =>
                                  /\ row["Plugin Version"] =
                                        VersionOf(entry, "last_known_plugin_version",
                                                  "plugin_version")
                                  /\ row["IDE Version"] =
                                        VersionOf(entry, "last_known_ide_version",
                                                  "ide_version")

\* Three records: two IDE entries, one IDE entry, no totals_by_ide field.
C5_Witness ==
    /\ built /\ Len(data) = 3
    /\ Len(EntriesOf(data[1], "totals_by_ide")) = 2
    /\ Len(EntriesOf(data[2], "totals_by_ide")) = 1
    /\ "totals_by_ide" \notin DOMAIN data[3].v
    /\ Len(sheets["IDE_Totals"]) = 3
    /\ sheets["IDE_Totals"][3]["User Login"] = Str("bob")
    /\ sheets["IDE_Totals"][3]["LOC Added"] = Num(7)
    /\ Len(sheets["Language_Model"]) = 2

RECURSIVE ExpectedOrder(_, _, _, _)
\* The (User Login, dimension) pairs of the entries of records i.. in input
\* order: records in order, the entries of one record in list order.
ExpectedOrder(d, sp, i, k) ==
    IF i > Len(d) THEN << >>
    ELSE IF k > Len(EntriesOf(d[i], sp.field)) THEN ExpectedOrder(d, sp, i + 1, 1)
    ELSE << << Get(d[i].v, "user_login", Str("")),
               Get(EntriesOf(d[i], sp.field)[k].v, sp.key, Str("")) >> >>
         \o ExpectedOrder(d, sp, i, k + 1)

\* C9: no table is sorted: Main_Metrics rows follow the loaded records, a
\* breakdown table holds the rows of an earlier record before those of a
\* later one and the rows of one record in the order of its nested list, and
\* every written tab holds the rows of its table in that same order.
C9_InputOrder ==
    /\ built =>
          /\ [i \in 1..Len(sheets["Main_Metrics"]) |->
                  sheets["Main_Metrics"][i]["User Login"]]
                = [i \in 1..Len(data) |-> Get(data[i].v, "user_login", Str(""))]
          /\ \A sp \in BreakdownSpecs :
                [p \in 1..Len(sheets[sp.sheet]) |->
                    << sheets[sp.sheet][p]["User Login"], sheets[sp.sheet][p][sp.dim] >>]
                  = ExpectedOrder(data, sp, 1, 1)
    /\ outFile.state = "written" =>
          \A t \in 1..Len(outFile.tabs) :
              outFile.tabs[t].rows = sheets[outFile.tabs[t].name]

\* bob's record loaded before alice's: the written tabs keep bob first and
\* alice's two IDE entries in list order.
C9_Witness ==
    /\ outFile.state = "written" /\ Len(data) = 2
    /\ outFile.tabs[1].rows[1]["User Login"] = Str("bob")
    /\ outFile.tabs[1].rows[2]["User Login"] = Str("alice")
    /\ outFile.tabs[2].name = "IDE_Totals"
    /\ [p \in 1..3 |-> outFile.tabs[2].rows[p]["IDE"]]
          = << Str("vim"), Str("vscode"), Str("jetbrains") >>

(* ------------------------ claims: the converter ----------------------- *)

TabNames == { outFile.tabs[t].name : t \in 1..Len(outFile.tabs) }
NonEmptySheets == { n \in DOMAIN sheets : Len(sheets[n]) > 0 }
Printed(m) == \E i \in 1..Len(console) : console[i].msg = m

\* C6: after a successful write the tabs of the workbook are exactly the
\* groupings whose table has a row, each once; an empty table gives a
\* warning and no tab.
C6_TabsAreNonEmptySheets ==
    outFile.state = "written" =>
        /\ TabNames = NonEmptySheets
        /\ Len(outFile.tabs) = Cardinality(NonEmptySheets)
        /\ \A n \in DOMAIN sheets \ NonEmptySheets :
              \E i \in 1..Len(console) :
                  console[i].msg = "warning_empty" /\ console[i].arg[1] = n

\* A workbook of four tabs, two groupings being empty.
C6_Witness ==
    /\ outFile.state = "written"
    /\ Cardinality(TabNames) = 4
    /\ "Language_Feature" \notin TabNames /\ Len(sheets["Language_Feature"]) = 0
    /\ "Model_Feature" \notin TabNames

\* C7: when the loader returns the empty list, convert_json_to_xlsx returns
\* before building a sheet and before opening the writer, and the run
\* creates no output file; main calls no conversion for a missing path.
C7_EmptyLoadAborts ==
    /\ (Loaded /\ Len(data) = 0) =>
          /\ pc = "done"
          /\ ~built /\ ~writeAttempted /\ ~raised
          /\ outFile = Absent
          /\ ~Printed("creating_sheets")
    /\ (viaMain /\ fileStatus = "missing") => ~convertCalled

\* main finds the path, the loader cannot read it, the conversion stops.
C7_Witness ==
    /\ viaMain /\ fileStatus = "unreadable" /\ Loaded
    /\ Len(data) = 0 /\ pc = "done" /\ outFile = Absent

\* C8 as stated: no exception leaves convert_json_to_xlsx, whatever the file
\* content and the output path, and after a write failure neither the
\* success message nor the summary is printed.
C8_NoExceptionPropagates ==
    /\ raised = FALSE
    /\ (writeAttempted /\ outFile.state # "written") =>
          ~Printed("success") /\ ~Printed("summary_header")

\* C10: when the writer is reached the loaded list is non-empty and
\* Main_Metrics has a row, so a written workbook has the Main_Metrics tab
\* and never zero tabs.
C10_MainMetricsAlwaysWritten ==
    /\ writeAttempted => Len(data) > 0 /\ Len(sheets["Main_Metrics"]) > 0
    /\ outFile.state = "written" =>
          /\ Len(outFile.tabs) > 0
          /\ "Main_Metrics" \in TabNames

\* A workbook whose only tab is Main_Metrics.
C10_Witness ==
    /\ outFile.state = "written"
    /\ TabNames = {"Main_Metrics"}
    /\ Len(outFile.tabs[1].rows) = Len(data)

====
